---------------------------- MODULE Spec2Model ----------------------------
(***************************************************************************)
(* Model of stdidx's index generator (src/tree.go): the header extractor,  *)
(* the collector, the hierarchy builder and the run that writes the index. *)
(*                                                                         *)
(* BuildHierarchy takes a flat slice of StandardsFile records, creates one *)
(* Node per path in a map, links every record's node under its parent (or  *)
(* into the root slice), and sorts every sibling slice by Title.           *)
(*                                                                         *)
(* Go pointers to Node are modelled by the map key of the node: after pass *)
(* one the map holds exactly one live Node instance per path, and pass two *)
(* only ever takes pointers out of that map, so a pointer is identified by *)
(* its path.  The variable nodes is the heap of those instances, and the   *)
(* slices roots and Children are sequences of pointers.  Aliasing (one     *)
(* instance linked from two slices) and cycles are therefore representable.*)
(*                                                                         *)
(* Go strings that are compared with < (titles) are sequences of byte      *)
(* values; strings that are only compared for equality are TLA+ strings.   *)
(***************************************************************************)
EXTENDS Integers, Sequences, FiniteSets, TLC

VARIABLES
    files,  \* the argument of BuildHierarchy: a sequence of StandardsFile
    pc,     \* "call": not yet run; "returned": BuildHierarchy returned;
            \* "crashed": the goroutine died of a stack overflow
    nodes,  \* the heap: path -> Node (the map built by pass one)
    roots,  \* StandardsTree.Nodes: the root slice, a sequence of pointers
    log,    \* the warnings emitted so far, in order
    disk,   \* the file system the run starts from (never written here)
    root,   \* the argument of ParseMDDocuments and GenerateStandardsTree
    ret,    \* what the call under study returned: a header pointer and
            \* an error
    outfile, \* the output file standards-tree.yaml as it is now
    args,   \* the flags of the sync command: branch and tag
    clone,  \* what is at ClonePath now
    trace   \* the steps Sync has taken so far, in order

vars ==
    <<files, pc, nodes, roots, log, disk, root, ret, outfile, args, clone,
      trace>>

-----------------------------------------------------------------------------
(* Bounds and input universes *)

\* Longest input slice drawn by Init.
MaxFiles == 3

\* A nil *string (StandardsHeader.Parent, Node.Parent).
Nil == "<nil>"

\* File paths that records may carry.
Paths == {"a.md", "b.md", "c.md"}

\* A path that no record carries: a dangling parent reference.
MissingPath == "missing.md"

\* Title strings as byte sequences: "AB" and "B".  Byte-wise "AB" < "B",
\* while a length-first order would put "B" first.
TitleAB == <<65, 66>>
TitleB == <<66>>

\* The header contents (all fields but Parent) that records may carry.
Contents ==
    { [Title |-> TitleAB, Description |-> "d1", Scope |-> "*",
       Topics |-> <<"x">>],
      [Title |-> TitleB, Description |-> "d2", Scope |-> "*.go",
       Topics |-> << >>] }

-----------------------------------------------------------------------------
(* Data types: src/types.go *)

StandardsHeader(c, parent) ==
    [Title |-> c.Title, Description |-> c.Description, Scope |-> c.Scope,
     Topics |-> c.Topics, Parent |-> parent]

StandardsFile(path, header) == [Path |-> path, Header |-> header]

\* The records Init draws from.
StandardsFiles ==
    { StandardsFile(p, StandardsHeader(c, parent)) :
        p \in Paths, c \in Contents,
        parent \in Paths \cup {MissingPath, Nil} }

\* &Node{...} of pass one: the fields are copied from the record and
\* Children starts as an empty slice.
Node(file) ==
    [Title |-> file.Header.Title,
     Description |-> file.Header.Description,
     Parent |-> file.Header.Parent,
     Scope |-> file.Header.Scope,
     Topics |-> file.Header.Topics,
     Path |-> file.Path,
     Children |-> << >>]

-----------------------------------------------------------------------------
(* Go's string comparison a < b: byte-wise lexicographic. *)

RECURSIVE StrLess(_, _)
StrLess(a, b) ==
    IF b = << >> THEN FALSE
    ELSE IF a = << >> THEN TRUE
    ELSE IF Head(a) # Head(b) THEN Head(a) < Head(b)
    ELSE StrLess(Tail(a), Tail(b))

-----------------------------------------------------------------------------
(* sort.Slice(nodes, less) as the Go runtime runs it on a short slice (at   *)
(* most 12 elements with pdqsort, at most 6 with the older quicksort):     *)
(* insertion sort, moving an element left while it is less than its left   *)
(* neighbour.  Equal elements therefore keep the order they came in.       *)

\* less of sortChildren: nodes[i].Title < nodes[j].Title
TitleLess(heap, p, q) == StrLess(heap[p].Title, heap[q].Title)

Swap(s, i, j) == [s EXCEPT ![i] = s[j], ![j] = s[i]]

RECURSIVE SiftLeft(_, _, _)
SiftLeft(heap, s, j) ==
    IF j > 1 /\ TitleLess(heap, s[j], s[j - 1])
    THEN SiftLeft(heap, Swap(s, j, j - 1), j - 1)
    ELSE s

RECURSIVE InsertionSort(_, _, _)
InsertionSort(heap, s, i) ==
    IF i > Len(s) THEN s
    ELSE InsertionSort(heap, SiftLeft(heap, s, i), i + 1)

SortSlice(heap, s) == InsertionSort(heap, s, 2)

-----------------------------------------------------------------------------
(* sortChildren: sort the slice in place, then recurse into the Children   *)
(* of each of its nodes in the sorted order.                               *)
(*                                                                         *)
(* A slice is named by where it lives: RootSlice, or the path of the node  *)
(* whose Children it is.  The recursion is unbounded in Go; a call chain   *)
(* deeper than the number of nodes has a node twice on the stack, so that  *)
(* node is its own descendant and the recursion never ends: the goroutine  *)
(* dies of a stack overflow.  The model stops there with overflow = TRUE.  *)

RootSlice == "<roots>"

SliceAt(t, loc) ==
    IF loc = RootSlice THEN t.roots ELSE t.nodes[loc].Children

StoreSlice(t, loc, s) ==
    IF loc = RootSlice THEN [t EXCEPT !.roots = s]
    ELSE [t EXCEPT !.nodes[loc].Children = s]

RECURSIVE sortChildren(_, _, _)
RECURSIVE sortEach(_, _, _, _)

sortChildren(t, loc, depth) ==
    IF depth > Cardinality(DOMAIN t.nodes)
    THEN [t EXCEPT !.overflow = TRUE]
    ELSE LET sorted == SortSlice(t.nodes, SliceAt(t, loc))
         IN sortEach(StoreSlice(t, loc, sorted), sorted, 1, depth)

\* A sortChildren that sorts its slice but never descends into Children.
sortEachNotDescending(t, list, k, depth) == t

\* for _, node := range nodes { sortChildren(node.Children) }
sortEach(t, list, k, depth) ==
    IF k > Len(list) THEN t
    ELSE LET r == sortChildren(t, list[k], depth + 1)
         IN IF r.overflow THEN r ELSE sortEach(r, list, k + 1, depth)

-----------------------------------------------------------------------------
(* BuildHierarchy *)

\* A pass one that keeps the first instance created for a path.
RECURSIVE CreateNodesFirstWins(_, _)
CreateNodesFirstWins(fs, i) ==
    IF i = 0 THEN << >>
    ELSE LET prev == CreateNodesFirstWins(fs, i - 1)
             file == fs[i]
         IN [p \in DOMAIN prev \cup {file.Path} |->
                IF p \in DOMAIN prev THEN prev[p] ELSE Node(file)]

\* Pass one: nodes[file.Path] = &Node{...} for each record in order; a
\* later record with the same path replaces the earlier instance.
RECURSIVE CreateNodes(_, _)
CreateNodes(fs, i) ==
    IF i = 0 THEN << >>
    ELSE LET prev == CreateNodes(fs, i - 1)
             file == fs[i]
         IN [p \in DOMAIN prev \cup {file.Path} |->
                IF p = file.Path THEN Node(file) ELSE prev[p]]

\* A pass two that promotes a record with an unresolved parent to a root
\* instead of dropping it.
LinkNodePromotingOrphans(t, file) ==
    IF file.Header.Parent = Nil \/ file.Header.Parent \notin DOMAIN t.nodes
    THEN [t EXCEPT !.roots = Append(@, file.Path)]
    ELSE [t EXCEPT !.nodes[file.Header.Parent].Children =
                        Append(@, file.Path)]

\* A pass two that keeps a single root: each record without a parent
\* replaces the root slice instead of being appended to it.
LinkNodeReplacingRoots(t, file) ==
    IF file.Header.Parent = Nil
    THEN [t EXCEPT !.roots = <<file.Path>>]
    ELSE IF file.Header.Parent \notin DOMAIN t.nodes
    THEN [t EXCEPT !.log = Append(@, [path |-> file.Path,
                                      parent |-> file.Header.Parent])]
    ELSE [t EXCEPT !.nodes[file.Header.Parent].Children =
                        Append(@, file.Path)]

\* A pass two that assigns the child instead of appending it: a parent
\* keeps only the child linked last.
LinkNodeReplacingChildren(t, file) ==
    IF file.Header.Parent = Nil
    THEN [t EXCEPT !.roots = Append(@, file.Path)]
    ELSE IF file.Header.Parent \notin DOMAIN t.nodes
    THEN [t EXCEPT !.log = Append(@, [path |-> file.Path,
                                      parent |-> file.Header.Parent])]
    ELSE [t EXCEPT !.nodes[file.Header.Parent].Children = <<file.Path>>]

\* A pass two that also roots every record it links under a parent.
LinkNodeAlsoRooting(t, file) ==
    IF file.Header.Parent = Nil
    THEN [t EXCEPT !.roots = Append(@, file.Path)]
    ELSE IF file.Header.Parent \notin DOMAIN t.nodes
    THEN [t EXCEPT !.log = Append(@, [path |-> file.Path,
                                      parent |-> file.Header.Parent])]
    ELSE [t EXCEPT !.nodes[file.Header.Parent].Children =
                        Append(@, file.Path),
                   !.roots = Append(@, file.Path)]

\* One iteration of pass two for record file.
LinkNode(t, file) ==
    IF file.Header.Parent = Nil
    THEN [t EXCEPT !.roots = Append(@, file.Path)]
    ELSE IF file.Header.Parent \notin DOMAIN t.nodes
    THEN [t EXCEPT !.log = Append(@, [path |-> file.Path,
                                      parent |-> file.Header.Parent])]
    ELSE [t EXCEPT !.nodes[file.Header.Parent].Children =
                        Append(@, file.Path)]

\* Pass two: the loop over the records, in order.
RECURSIVE LinkNodes(_, _, _)
LinkNodes(fs, heap, i) ==
    IF i = 0
    THEN [nodes |-> heap, roots |-> << >>, log |-> << >>, overflow |-> FALSE]
    ELSE LinkNode(LinkNodes(fs, heap, i - 1), fs[i])

BuildHierarchy(fs) ==
    sortChildren(LinkNodes(fs, CreateNodes(fs, Len(fs)), Len(fs)),
                 RootSlice, 0)

-----------------------------------------------------------------------------
(* Go strings that the collector takes apart (split at "/", suffix test).  *)
(* Chars gives the spelling of each such string as a sequence of           *)
(* one-character strings; Text puts a spelling back together.              *)

Chars ==
    [s \in {"", "/", ".md", ".stdidx", "tree", "./tree", "repos/tree",
            "a.md", "notes.txt", "a.md.bak", "sub", "z.md",
            "sub/a.md", "./a.md", "sub/../a.md", "../x.md", "missing.md"} |->
        CASE s = "" -> << >>
          [] s = "/" -> <<"/">>
          [] s = ".md" -> <<".", "m", "d">>
          [] s = ".stdidx" -> <<".", "s", "t", "d", "i", "d", "x">>
          [] s = "tree" -> <<"t", "r", "e", "e">>
          [] s = "./tree" -> <<".", "/", "t", "r", "e", "e">>
          [] s = "repos/tree" ->
                <<"r", "e", "p", "o", "s", "/", "t", "r", "e", "e">>
          [] s = "a.md" -> <<"a", ".", "m", "d">>
          [] s = "notes.txt" ->
                <<"n", "o", "t", "e", "s", ".", "t", "x", "t">>
          [] s = "a.md.bak" -> <<"a", ".", "m", "d", ".", "b", "a", "k">>
          [] s = "sub" -> <<"s", "u", "b">>
          [] s = "z.md" -> <<"z", ".", "m", "d">>
          [] s = "sub/a.md" -> <<"s", "u", "b", "/", "a", ".", "m", "d">>
          [] s = "./a.md" -> <<".", "/", "a", ".", "m", "d">>
          [] s = "sub/../a.md" ->
                <<"s", "u", "b", "/", ".", ".", "/", "a", ".", "m", "d">>
          [] s = "../x.md" -> <<".", ".", "/", "x", ".", "m", "d">>
          [] s = "missing.md" ->
                <<"m", "i", "s", "s", "i", "n", "g", ".", "m", "d">>]

RECURSIVE Text(_)
Text(cs) == IF cs = << >> THEN "" ELSE Head(cs) \o Text(Tail(cs))

HasSuffixOrInfix(cs, suffix) ==
    \E k \in 1..Len(cs) :
        /\ k + Len(suffix) - 1 <= Len(cs)
        /\ SubSeq(cs, k, k + Len(suffix) - 1) = suffix

\* strings.HasSuffix on spellings.
HasSuffix(cs, suffix) ==
    /\ Len(suffix) <= Len(cs)
    /\ SubSeq(cs, Len(cs) - Len(suffix) + 1, Len(cs)) = suffix

\* The elements of a path between its slashes; "a//b" has an empty one.
RECURSIVE SplitFrom(_, _, _)
SplitFrom(cs, k, cur) ==
    IF k > Len(cs) THEN <<cur>>
    ELSE IF cs[k] = "/" THEN <<cur>> \o SplitFrom(cs, k + 1, << >>)
    ELSE SplitFrom(cs, k + 1, Append(cur, cs[k]))

Split(cs) == SplitFrom(cs, 1, << >>)

\* path.Clean, element by element: empty and "." elements are dropped, ".."
\* removes the element before it, or is dropped at the root of a rooted
\* path, or is kept at the start of a relative one.
RECURSIVE CleanFrom(_, _, _, _)
CleanFrom(elems, k, rooted, out) ==
    IF k > Len(elems) THEN out
    ELSE LET e == elems[k]
         IN IF e = << >> \/ e = <<".">>
            THEN CleanFrom(elems, k + 1, rooted, out)
            ELSE IF e = <<".", ".">>
            THEN IF out # << >> /\ out[Len(out)] # <<".", ".">>
                 THEN CleanFrom(elems, k + 1, rooted,
                                SubSeq(out, 1, Len(out) - 1))
                 ELSE IF rooted
                 THEN CleanFrom(elems, k + 1, rooted, out)
                 ELSE CleanFrom(elems, k + 1, rooted, Append(out, e))
            ELSE CleanFrom(elems, k + 1, rooted, Append(out, e))

\* The elements joined by "/".
RECURSIVE JoinElems(_)
JoinElems(elems) ==
    IF elems = << >> THEN << >>
    ELSE IF Len(elems) = 1 THEN elems[1]
    ELSE elems[1] \o <<"/">> \o JoinElems(Tail(elems))

Clean(cs) ==
    LET rooted == cs # << >> /\ cs[1] = "/"
        out == JoinElems(CleanFrom(Split(cs), 1, rooted, << >>))
    IN IF rooted THEN <<"/">> \o out
       ELSE IF out = << >> THEN <<".">>
       ELSE out

JoinWithoutClean(a, b) == a \o <<"/">> \o b

\* filepath.Join(dir, name) on a system whose separator is "/", as the walk
\* calls it with a directory path and an entry name, neither empty.
FilepathJoin(dir, name) == Clean(dir \o <<"/">> \o name)

\* path.Join(a, b): empty arguments are ignored, the others are joined by
\* "/" and the result is cleaned; all arguments empty gives "".
Join(a, b) ==
    IF a = << >> /\ b = << >> THEN << >>
    ELSE IF a = << >> THEN Clean(b)
    ELSE IF b = << >> THEN Clean(a)
    ELSE Clean(a \o <<"/">> \o b)

-----------------------------------------------------------------------------
(* Documents.  A document is what os.ReadFile and the front matter parser  *)
(* can tell apart: whether it can be read, what kind of metadata block it  *)
(* starts with, and, for a block that is a YAML mapping, the value given   *)
(* for each of the five keys of StandardsHeader.                           *)

Absent == [kind |-> "absent", v |-> << >>]
Null == [kind |-> "null", v |-> << >>]
Scalar(x) == [kind |-> "scalar", v |-> x]
List(xs) == [kind |-> "list", v |-> xs]

NoFields ==
    [title |-> Absent, description |-> Absent, scope |-> Absent,
     topics |-> Absent, parent |-> Absent]

\* block: "none" (the text does not open with a delimiter), "unterminated"
\* (opening delimiter, no closing one), "malformed" (delimited, but the
\* text between the delimiters is not a YAML mapping), "mapping".
Document(readable, block, fields) ==
    [readable |-> readable, block |-> block, fields |-> fields]

Unreadable == Document(FALSE, "none", NoFields)
NoBlock == Document(TRUE, "none", NoFields)
Unterminated == Document(TRUE, "unterminated", NoFields)
Malformed == Document(TRUE, "malformed", NoFields)
Mapping(fields) == Document(TRUE, "mapping", fields)

\* A nil []string, kept apart from the empty slice.
NilSlice == <<Nil>>

\* A nil *StandardsHeader; a non-nil one is <<header>>.
NilHeader == << >>

\* yaml.v2 decoding into a string field: an absent or null value leaves
\* the zero value, a scalar gives its text, a list does not fit.  Title is
\* held as its bytes, so its zero value is passed in.
DecodeString(y, zero) ==
    CASE y.kind \in {"absent", "null"} -> [ok |-> TRUE, v |-> zero]
      [] y.kind = "scalar" -> [ok |-> TRUE, v |-> y.v]
      [] OTHER -> [ok |-> FALSE, v |-> zero]

\* ... into a []string field.
DecodeStrings(y) ==
    CASE y.kind \in {"absent", "null"} -> [ok |-> TRUE, v |-> NilSlice]
      [] y.kind = "list" -> [ok |-> TRUE, v |-> y.v]
      [] OTHER -> [ok |-> FALSE, v |-> NilSlice]

DecodePointerDroppingValue(y) ==
    [ok |-> y.kind # "list", v |-> Nil]

\* ... into a *string field.
DecodePointer(y) ==
    CASE y.kind \in {"absent", "null"} -> [ok |-> TRUE, v |-> Nil]
      [] y.kind = "scalar" -> [ok |-> TRUE, v |-> y.v]
      [] OTHER -> [ok |-> FALSE, v |-> Nil]

ZeroHeader ==
    [Title |-> << >>, Description |-> "", Scope |-> "", Topics |-> NilSlice,
     Parent |-> Nil]

\* frontmatter.Parse(reader, &header) with header the zero value: a text
\* without a complete block leaves header alone and is no error; a block
\* that does not unmarshal into StandardsHeader is an error.
Parse(doc) ==
    IF doc.block \in {"none", "unterminated"}
    THEN [header |-> ZeroHeader, err |-> Nil]
    ELSE IF doc.block = "malformed"
    THEN [header |-> ZeroHeader, err |-> "yaml: unmarshal"]
    ELSE LET f == doc.fields
             title == DecodeString(f.title, << >>)
             description == DecodeString(f.description, "")
             scope == DecodeString(f.scope, "")
             topics == DecodeStrings(f.topics)
             parent == DecodePointer(f.parent)
         IN [header |->
                [Title |-> title.v, Description |-> description.v,
                 Scope |-> scope.v, Topics |-> topics.v,
                 Parent |-> parent.v],
             err |->
                IF title.ok /\ description.ok /\ scope.ok /\ topics.ok
                   /\ parent.ok
                THEN Nil
                ELSE "yaml: unmarshal"]

ValidateIgnoringTopics(header) ==
    /\ header.Title # << >>
    /\ header.Description # ""
    /\ header.Scope # ""

\* validator.Struct(header) = nil: the tag "required" wants a non-empty
\* string and a non-nil slice; Parent is "omitempty".
Validate(header) ==
    /\ header.Title # << >>
    /\ header.Description # ""
    /\ header.Scope # ""
    /\ header.Topics # NilSlice

\* ExtractMDHeader(path) where doc is the file at path.
ExtractMDHeader(doc) ==
    IF ~doc.readable
    THEN [header |-> NilHeader, err |-> "read"]
    ELSE LET parsed == Parse(doc)
         IN IF parsed.err # Nil
            THEN [header |-> NilHeader, err |-> parsed.err]
            ELSE IF ~Validate(parsed.header)
            THEN [header |-> NilHeader, err |-> Nil]
            ELSE [header |-> <<parsed.header>>, err |-> Nil]

-----------------------------------------------------------------------------
(* The state machine: one call of BuildHierarchy on an input slice. *)

\* Values of the variables that a call of BuildHierarchy does not touch.
NoFile == [exists |-> FALSE, data |-> << >>]
NoResult == [header |-> NilHeader, err |-> Nil]
NoDisk == [lstat |-> FALSE, output |-> NoFile]

\* Values of the variables that only the sync command touches.
NoArgs == [branch |-> "", tag |-> ""]
NothingThere == [present |-> FALSE, stat |-> FALSE, listing |-> << >>]

NotSyncing ==
    /\ args = NoArgs
    /\ clone = NothingThere
    /\ trace = << >>

Idle ==
    /\ NotSyncing
    /\ disk = NoDisk
    /\ root = ""
    /\ ret = NoResult
    /\ outfile = NoFile

\* Every slice of at most MaxFiles records over Paths: records may share a
\* path, name themselves or each other as parent, or name a missing parent.
SmallInputs == UNION { [1..n -> StandardsFiles] : n \in 0..MaxFiles }

\* A three-level family on four distinct paths, in every input order and
\* with every choice of contents: a.md is a root, b.md its child, and c.md
\* and d.md are both children of b.md.
DeepParent ==
    [p \in {"a.md", "b.md", "c.md", "d.md"} |->
        CASE p = "a.md" -> Nil
          [] p = "b.md" -> "a.md"
          [] OTHER -> "b.md"]

FamilyInputs(parentOf) ==
    LET ps == DOMAIN parentOf
        n == Cardinality(ps)
    IN { [i \in 1..n |->
            StandardsFile(order[i], StandardsHeader(c[order[i]],
                                                    parentOf[order[i]]))] :
         order \in { f \in [1..n -> ps] : \A i, j \in 1..n :
                                            i # j => f[i] # f[j] },
         c \in [ps -> Contents] }

DeepInputs == FamilyInputs(DeepParent)

Inputs == SmallInputs \cup DeepInputs

Init ==
    /\ files \in Inputs
    /\ pc = "call"
    /\ nodes = << >>
    /\ roots = << >>
    /\ log = << >>
    /\ Idle

\* One call tree := BuildHierarchy(files).  When sortChildren recurses
\* forever the call never returns and the process dies.
Build ==
    /\ pc = "call"
    /\ LET t == BuildHierarchy(files)
       IN /\ pc' = IF t.overflow THEN "crashed" ELSE "returned"
          /\ nodes' = t.nodes
          /\ roots' = t.roots
          /\ log' = log \o t.log
    /\ UNCHANGED <<files, disk, root, ret, outfile, args, clone, trace>>

Next == Build

Spec == Init /\ [][Next]_vars

-----------------------------------------------------------------------------
(* The five-record scenario: A and C have no parent, B names A, D names C, *)
(* and E names a path that no record carries.  Init draws the records in   *)
(* every input order and with every choice of contents.                    *)

ScenarioParent ==
    [p \in {"A.md", "B.md", "C.md", "D.md", "E.md"} |->
        CASE p = "B.md" -> "A.md"
          [] p = "D.md" -> "C.md"
          [] p = "E.md" -> MissingPath
          [] OTHER -> Nil]

ScenarioInputs == FamilyInputs(ScenarioParent)

InitScenario ==
    /\ files \in ScenarioInputs
    /\ pc = "call"
    /\ nodes = << >>
    /\ roots = << >>
    /\ log = << >>
    /\ Idle

SpecScenario == InitScenario /\ [][Next]_vars

-----------------------------------------------------------------------------
(* The file system.  An entry is a file with its document or a directory   *)
(* with its listing (in the order os.ReadDir returns it, sorted by name);  *)
(* a directory whose listing cannot be read has canList = FALSE.           *)

FileEntry(name, doc) ==
    [name |-> name, isDir |-> FALSE, doc |-> doc, canList |-> TRUE,
     listing |-> << >>]

DirEntry(name, canList, listing) ==
    [name |-> name, isDir |-> TRUE, doc |-> NoBlock, canList |-> canList,
     listing |-> listing]

\* lstat: os.Lstat(root) succeeds; entry: what root names; output: the
\* output file before the run.
Disk(lstat, entry, output) ==
    [lstat |-> lstat, entry |-> entry, output |-> output]

-----------------------------------------------------------------------------
(* One call of ExtractMDHeader on one document. *)

TitleValues ==
    {Absent, Null, Scalar(<< >>), Scalar(TitleB), List(<<TitleB>>)}
DescriptionValues == {Absent, Scalar(""), Scalar("d1")}
ScopeValues == {Absent, Scalar("*")}
TopicsValues ==
    {Absent, Null, List(<< >>), List(<<"x", "y">>), List(<<"y", "x">>),
     Scalar("x")}
ParentValues ==
    {Absent, Null, Scalar("a.md"), Scalar(""), List(<<"a.md">>)}

Documents ==
    {Unreadable, NoBlock, Unterminated, Malformed} \cup
    { Mapping(f) :
        f \in [title : TitleValues, description : DescriptionValues,
               scope : ScopeValues, topics : TopicsValues,
               parent : ParentValues] }

InitExtract ==
    /\ disk \in { Disk(TRUE, FileEntry("a.md", doc), NoFile) :
                    doc \in Documents }
    /\ root = "a.md"
    /\ pc = "extract"
    /\ files = << >>
    /\ nodes = << >>
    /\ roots = << >>
    /\ log = << >>
    /\ ret = NoResult
    /\ outfile = NoFile
    /\ NotSyncing

\* header, err := ExtractMDHeader(root)
Extract ==
    /\ pc = "extract"
    /\ ret' = ExtractMDHeader(disk.entry.doc)
    /\ pc' = "extracted"
    /\ UNCHANGED <<files, nodes, roots, log, disk, root, outfile, args,
                   clone, trace>>

NextExtract == Extract

SpecExtract == InitExtract /\ [][NextExtract]_vars

-----------------------------------------------------------------------------
(* The collector: ParseMDDocuments.  The accumulator acc holds what the    *)
(* closure has captured or returned so far: the headers slice, the         *)
(* warnings, and the error that stops the walk (Nil while there is none).  *)

WalkFnIgnoringErrors(path, d, acc) ==
    IF d.isDir \/ ~HasSuffix(Chars[d.name], Chars[".md"])
    THEN acc
    ELSE LET extracted == ExtractMDHeader(d.doc)
         IN IF extracted.header # NilHeader
            THEN [acc EXCEPT !.headers =
                    Append(@, StandardsFile(Text(path),
                                            extracted.header[1]))]
            ELSE [acc EXCEPT !.log = Append(@, Text(path))]

\* The callback handed to filepath.WalkDir, called with a nil error.
WalkFn(path, d, acc) ==
    IF d.isDir
    THEN acc
    ELSE IF ~HasSuffix(Chars[d.name], Chars[".md"])
    THEN acc
    ELSE LET extracted == ExtractMDHeader(d.doc)
         IN IF extracted.err # Nil
            THEN [acc EXCEPT !.err = extracted.err]
            ELSE IF extracted.header # NilHeader
            THEN [acc EXCEPT !.headers =
                    Append(@, StandardsFile(Text(path),
                                            extracted.header[1]))]
            ELSE [acc EXCEPT !.log = Append(@, Text(path))]

\* filepath.walkDir: the callback on the entry itself, then, for a
\* directory, on every entry of its listing in turn, until one call
\* returns an error.  A listing that cannot be read is reported to the
\* callback, which returns that error.
RECURSIVE walkDir(_, _, _)
RECURSIVE walkEntries(_, _, _, _)

RECURSIVE walkEntriesSkippingDirs(_, _, _, _)
walkEntriesSkippingDirs(path, listing, k, acc) ==
    IF k > Len(listing)
    THEN acc
    ELSE IF listing[k].isDir
    THEN walkEntriesSkippingDirs(path, listing, k + 1, acc)
    ELSE LET walked == walkDir(FilepathJoin(path, Chars[listing[k].name]),
                               listing[k], acc)
         IN IF walked.err # Nil
            THEN walked
            ELSE walkEntriesSkippingDirs(path, listing, k + 1, walked)

walkDir(path, d, acc) ==
    LET visited == WalkFn(path, d, acc)
    IN IF visited.err # Nil \/ ~d.isDir
       THEN visited
       ELSE IF ~d.canList
       THEN [visited EXCEPT !.err = "readdir"]
       ELSE walkEntries(path, d.listing, 1, visited)

walkEntries(path, listing, k, acc) ==
    IF k > Len(listing)
    THEN acc
    ELSE LET walked == walkDir(FilepathJoin(path, Chars[listing[k].name]),
                               listing[k], acc)
         IN IF walked.err # Nil
            THEN walked
            ELSE walkEntries(path, listing, k + 1, walked)

\* filepath.WalkDir(root, fn): an Lstat failure on root is reported to the
\* callback, which returns it.
WalkDir(r, fsys) ==
    LET acc == [headers |-> << >>, log |-> << >>, err |-> Nil]
    IN IF ~fsys.lstat
       THEN [acc EXCEPT !.err = "lstat"]
       ELSE walkDir(Chars[r], fsys.entry, acc)

\* The loop after the walk: every non-nil Parent becomes
\* path.Join(root, Parent).
AugmentParent(r, file) ==
    IF file.Header.Parent # Nil
    THEN [file EXCEPT !.Header.Parent =
            Text(Join(Chars[r], Chars[file.Header.Parent]))]
    ELSE file

ParseMDDocuments(r, fsys) ==
    LET walked == WalkDir(r, fsys)
    IN [walked EXCEPT !.headers =
          [i \in DOMAIN walked.headers |->
              AugmentParent(r, walked.headers[i])]]

-----------------------------------------------------------------------------
(* One run of GenerateStandardsTree(root) over a small directory tree:     *)
(*     root/a.md, root/a.md.bak or root/notes.txt, and a directory         *)
(*     root/sub or root/z.md holding a.md,                                 *)
(* each present or not, with every choice of document.                     *)

Valid(parent) ==
    Mapping([title |-> Scalar(TitleB), description |-> Scalar("d1"),
             scope |-> Scalar("*"), topics |-> List(<<"x">>),
             parent |-> parent])

Incomplete == Mapping([NoFields EXCEPT !.description = Scalar("d1")])

DeclaredParents ==
    {"", "a.md", "./a.md", "sub/a.md", "sub/../a.md", "../x.md",
     "missing.md"}

TopDocuments ==
    {Unreadable, NoBlock, Malformed, Incomplete, Valid(Absent)} \cup
    { Valid(Scalar(parent)) : parent \in DeclaredParents }

OtherDocuments == {Unreadable, Valid(Absent)}

SubDocuments ==
    {Unreadable, NoBlock, Valid(Absent), Valid(Scalar("a.md")),
     Valid(Scalar("sub/a.md"))}

\* The listings of a directory, in name order.
TopFiles == {<< >>} \cup { <<FileEntry("a.md", doc)>> : doc \in TopDocuments }

OtherFiles ==
    {<< >>} \cup
    { <<FileEntry(name, doc)>> :
        name \in {"a.md.bak", "notes.txt"}, doc \in OtherDocuments }

SubListings ==
    {<< >>} \cup { <<FileEntry("a.md", doc)>> : doc \in SubDocuments }

SubDirs ==
    {<< >>} \cup
    { <<DirEntry(name, FALSE, << >>)>> : name \in {"sub", "z.md"} } \cup
    { <<DirEntry(name, TRUE, listing)>> :
        name \in {"sub", "z.md"}, listing \in SubListings }

RootListings ==
    { top \o other \o sub :
        top \in TopFiles, other \in OtherFiles, sub \in SubDirs }

Roots == {"tree", "./tree", "repos/tree"}

\* The serialized form of a sibling slice: every field of Node but Parent,
\* with the children nested.
RECURSIVE Serialize(_, _)
Serialize(heap, s) ==
    [k \in DOMAIN s |->
        [Path |-> heap[s[k]].Path,
         Title |-> heap[s[k]].Title,
         Description |-> heap[s[k]].Description,
         Scope |-> heap[s[k]].Scope,
         Topics |-> heap[s[k]].Topics,
         Children |-> Serialize(heap, heap[s[k]].Children)]]

\* An index left by an earlier run.
OldFile ==
    [exists |-> TRUE,
     data |-> <<[Path |-> "old.md", Title |-> TitleAB,
                 Description |-> "d1", Scope |-> "*", Topics |-> <<"x">>,
                 Children |-> << >>]>>]

TruncatedFile == [exists |-> TRUE, data |-> << >>]

Disks ==
    { Disk(TRUE, DirEntry("tree", TRUE, listing), output) :
        listing \in RootListings, output \in {NoFile, OldFile} } \cup
    { Disk(TRUE, DirEntry("tree", FALSE, << >>), output) :
        output \in {NoFile, OldFile} } \cup
    { Disk(FALSE, DirEntry("tree", FALSE, << >>), output) :
        output \in {NoFile, OldFile} }

InitRun ==
    /\ disk \in Disks
    /\ root \in Roots
    /\ pc = "parse"
    /\ files = << >>
    /\ nodes = << >>
    /\ roots = << >>
    /\ log = << >>
    /\ ret = NoResult
    /\ outfile = disk.output
    /\ NotSyncing

Failed(err) == [header |-> NilHeader, err |-> err]

\* headers, err := ParseMDDocuments(path); if err != nil { return err }
Collect ==
    /\ pc = "parse"
    /\ LET parsed == ParseMDDocuments(root, disk)
       IN /\ files' = parsed.headers
          /\ log' = log \o parsed.log
          /\ IF parsed.err # Nil
             THEN pc' = "error" /\ ret' = Failed(parsed.err)
             ELSE pc' = "call" /\ ret' = ret
    /\ UNCHANGED <<nodes, roots, disk, root, outfile, args, clone, trace>>

MarshalThenWrite ==
    /\ pc = "returned"
    /\ outfile' = [exists |-> TRUE, data |-> Serialize(nodes, roots)]
    /\ \/ pc' = "marshalled" /\ ret' = ret
       \/ pc' = "error" /\ ret' = Failed("yaml: marshal")
    /\ UNCHANGED <<files, nodes, roots, log, disk, root, args, clone, trace>>

\* data, err := yaml.Marshal(tree); if err != nil { return err }
Marshal ==
    /\ pc = "returned"
    /\ \/ pc' = "marshalled" /\ ret' = ret
       \/ pc' = "error" /\ ret' = Failed("yaml: marshal")
    /\ UNCHANGED <<files, nodes, roots, log, disk, root, outfile, args,
                   clone, trace>>

\* os.WriteFile(outputPath, data, 0644): on failure the file is as it was
\* (it could not be opened) or was truncated (it could not be written).
Write ==
    /\ pc = "marshalled"
    /\ \/ /\ outfile' = [exists |-> TRUE, data |-> Serialize(nodes, roots)]
          /\ pc' = "done"
          /\ ret' = ret
       \/ /\ outfile' \in {outfile, TruncatedFile}
          /\ pc' = "error"
          /\ ret' = Failed("write")
    /\ UNCHANGED <<files, nodes, roots, log, disk, root, args, clone, trace>>

NextRun == Collect \/ Build \/ Marshal \/ Write

SpecRun == InitRun /\ [][NextRun]_vars

-----------------------------------------------------------------------------
(* The sync command: the flag check of main's Action, then Sync, whose     *)
(* last step is the run of GenerateStandardsTree on ClonePath.  The cloner *)
(* is an interface: a call may fail or succeed, and a successful one adds  *)
(* the cloned files to whatever is at ClonePath.                           *)

ClonePath == ".stdidx"

\* What an earlier sync left at ClonePath, and what a clone can bring.
OldListing == <<FileEntry("a.md", Valid(Absent))>>

ClonedListings ==
    {<< >>} \cup
    { <<FileEntry("z.md", doc)>> :
        doc \in {Valid(Absent), Valid(Scalar("a.md")), NoBlock} }

\* stat: os.Stat(ClonePath) succeeds.  It fails when nothing is there, and
\* can fail although something is there (the path cannot be searched).
Clones ==
    {NothingThere,
     [present |-> TRUE, stat |-> TRUE, listing |-> OldListing],
     [present |-> TRUE, stat |-> FALSE, listing |-> OldListing]}

InitSync ==
    /\ args \in [branch : {"", "main"}, tag : {"", "v1"}]
    /\ clone \in Clones
    /\ trace = << >>
    /\ outfile \in {NoFile, OldFile}
    /\ disk = [NoDisk EXCEPT !.output = outfile]
    /\ root = ""
    /\ pc = "main"
    /\ files = << >>
    /\ nodes = << >>
    /\ roots = << >>
    /\ log = << >>
    /\ ret = NoResult

SyncCommandWithoutCheck ==
    /\ pc = "main"
    /\ pc' = "sync"
    /\ UNCHANGED <<files, nodes, roots, log, disk, root, ret, outfile, args,
                   clone, trace>>

\* The Action of the sync command up to its call of Sync.
SyncCommand ==
    /\ pc = "main"
    /\ IF args.branch # "" /\ args.tag # ""
       THEN pc' = "error" /\ ret' = Failed("only one of --branch or --tag")
       ELSE pc' = "sync" /\ ret' = ret
    /\ UNCHANGED <<files, nodes, roots, log, disk, root, outfile, args,
                   clone, trace>>

\* if _, err := os.Stat(repository.ClonePath); err == nil { ... }
SyncStat ==
    /\ pc = "sync"
    /\ pc' = IF clone.stat THEN "remove" ELSE "clone"
    /\ UNCHANGED <<files, nodes, roots, log, disk, root, ret, outfile, args,
                   clone, trace>>

SyncRemoveIgnoringFailure ==
    /\ pc = "remove"
    /\ trace' = Append(trace, "remove")
    /\ pc' = "clone"
    /\ \/ clone' = NothingThere /\ ret' = ret
       \/ clone' = clone /\ ret' = Failed("remove")
    /\ UNCHANGED <<files, nodes, roots, log, disk, root, outfile, args>>

\* os.RemoveAll(repository.ClonePath); a failure can leave the directory
\* as it was or emptied.
SyncRemove ==
    /\ pc = "remove"
    /\ trace' = Append(trace, "remove")
    /\ \/ /\ clone' = NothingThere
          /\ pc' = "clone"
          /\ ret' = ret
       \/ /\ clone' \in {clone, [clone EXCEPT !.listing = << >>]}
          /\ pc' = "error"
          /\ ret' = Failed("remove")
    /\ UNCHANGED <<files, nodes, roots, log, disk, root, outfile, args>>

\* cloner.Clone(repository)
SyncClone ==
    /\ pc = "clone"
    /\ trace' = Append(trace, "clone")
    /\ \E cloned \in ClonedListings :
          \/ /\ clone' = [present |-> TRUE, stat |-> TRUE,
                          listing |-> clone.listing \o cloned]
             /\ pc' = "generate"
             /\ ret' = ret
          \/ /\ clone' \in {clone,
                            [present |-> TRUE, stat |-> TRUE,
                             listing |-> clone.listing \o cloned]}
             /\ pc' = "error"
             /\ ret' = Failed("clone")
    /\ UNCHANGED <<files, nodes, roots, log, disk, root, outfile, args>>

\* GenerateStandardsTree(repository.ClonePath) is entered: the run starts
\* from the file system as it is now.
SyncGenerate ==
    /\ pc = "generate"
    /\ trace' = Append(trace, "generate")
    /\ disk' = Disk(clone.stat, DirEntry(ClonePath, TRUE, clone.listing),
                    outfile)
    /\ root' = ClonePath
    /\ pc' = "parse"
    /\ UNCHANGED <<files, nodes, roots, log, ret, outfile, args, clone>>

NextSync ==
    \/ SyncCommand
    \/ SyncStat
    \/ SyncRemove
    \/ SyncClone
    \/ SyncGenerate
    \/ Collect
    \/ Build
    \/ Marshal
    \/ Write

SpecSync == InitSync /\ [][NextSync]_vars

-----------------------------------------------------------------------------
(* Reading the result *)

Returned == pc = "returned"

Range(s) == { s[i] : i \in DOMAIN s }

Count(s, p) == Cardinality({ i \in DOMAIN s : s[i] = p })

\* The pointers reachable from the set S through Children.
RECURSIVE Closure(_)
Closure(S) ==
    LET T == S \cup UNION { Range(nodes[p].Children) : p \in S }
    IN IF T = S THEN S ELSE Closure(T)

\* The nodes of the returned forest: the roots and all their descendants.
ForestNodes == Closure(Range(roots))

\* The proper descendants of the node p.
Descendants(p) == Closure(Range(nodes[p].Children))

\* How often p occurs in the Children slices of the nodes in S.
RECURSIVE LinksIn(_, _)
LinksIn(S, p) ==
    IF S = {} THEN 0
    ELSE LET q == CHOOSE x \in S : TRUE
         IN Count(nodes[q].Children, p) + LinksIn(S \ {q}, p)

\* How often p is linked in the returned forest: in the root slice or in
\* the Children of a node of the forest.
ForestLinks(p) == Count(roots, p) + LinksIn(ForestNodes, p)

\* How often p is linked anywhere: in the root slice or in the Children of
\* any node of the map.
AllLinks(p) == Count(roots, p) + LinksIn(DOMAIN nodes, p)

\* The record's parent is present and no record of the input has that path.
Dangling(file) ==
    /\ file.Header.Parent # Nil
    /\ \A j \in DOMAIN files : files[j].Path # file.Header.Parent

\* The node instance of the map entry p was created from the record file.
IsNodeOf(p, file) ==
    /\ p = file.Path
    /\ [nodes[p] EXCEPT !.Children = << >>] = Node(file)

\* The record is in the returned forest: its node instance is reachable
\* from the root slice.
InForest(file) ==
    /\ file.Path \in ForestNodes
    /\ IsNodeOf(file.Path, file)

\* a <= b in byte-wise lexicographic order, stated without recursion: the
\* strings agree on a prefix of length k, after which a ends or has the
\* smaller byte.
BytewiseLE(a, b) ==
    \E k \in 0..Len(a) :
        /\ k <= Len(b)
        /\ \A i \in 1..k : a[i] = b[i]
        /\ \/ k = Len(a)
           \/ k < Len(b) /\ a[k + 1] < b[k + 1]

SortedByTitle(s) ==
    \A i, j \in DOMAIN s :
        i < j => BytewiseLE(nodes[s[i]].Title, nodes[s[j]].Title)

\* getNodeCount of the tests: the number of nodes of the forest, counted by
\* walking the slice and, after each node, its Children.
RECURSIVE getNodeCount(_, _, _)
RECURSIVE getNodeCountFrom(_, _, _, _)
getNodeCount(heap, list, count) == getNodeCountFrom(heap, list, 1, count)

getNodeCountFrom(heap, list, k, count) ==
    IF k > Len(list) THEN count
    ELSE getNodeCountFrom(heap, list, k + 1,
             getNodeCount(heap, heap[list[k]].Children, count + 1))

\* No two records of the input have the same path.
DistinctPaths ==
    \A i, j \in DOMAIN files : i # j => files[i].Path # files[j].Path

\* Following the parent references from the record file ends, within n
\* steps, at a record without a parent.
RECURSIVE ChainEnds(_, _)
ChainEnds(file, n) ==
    \/ file.Header.Parent = Nil
    \/ /\ n > 0
       /\ \E j \in DOMAIN files :
             /\ files[j].Path = file.Header.Parent
             /\ ChainEnds(files[j], n - 1)

AllChainsEnd == \A i \in DOMAIN files : ChainEnds(files[i], Len(files))

\* The input slices that hold the records of fs in another order.
Reorderings(fs) ==
    { [i \in DOMAIN fs |-> fs[pi[i]]] : pi \in Permutations(DOMAIN fs) }

NoParents == \A i \in DOMAIN files : files[i].Header.Parent = Nil

\* The record files[i] comes before the record files[j] with these paths.
Before(p, q) ==
    \E i, j \in DOMAIN files :
        i < j /\ files[i].Path = p /\ files[j].Path = q

-----------------------------------------------------------------------------
(* Claims *)

\* C1: a record whose parent is present and equals no record's path in the
\* same input is nowhere in the returned forest, neither as a root nor as a
\* child at any depth -- stated for every input.
C1_DanglingRecordAbsent ==
    Returned =>
        \A i \in DOMAIN files : Dangling(files[i]) => ~InForest(files[i])

\* C2: a record whose parent equals another record's path is in the
\* Children of the node for that path and is not in the root slice --
\* stated for every input.
C2_ChildUnderParentNotRoot ==
    Returned =>
        \A i \in DOMAIN files :
            LET f == files[i]
            IN (/\ f.Header.Parent # Nil
                /\ \E j \in DOMAIN files :
                      j # i /\ files[j].Path = f.Header.Parent)
               => /\ f.Path \in Range(nodes[f.Header.Parent].Children)
                  /\ ~(f.Path \in Range(roots) /\ IsNodeOf(f.Path, f))

\* C3: after BuildHierarchy the children of every node created from the
\* input are exactly the input records whose parent is that node's path:
\* none missing, none extra, none repeated.
C3_ChildrenExactlyReferrers ==
    Returned =>
        \A p \in DOMAIN nodes :
            /\ \A i \in DOMAIN files :
                  files[i].Header.Parent = p
                      => files[i].Path \in Range(nodes[p].Children)
            /\ \A c \in Range(nodes[p].Children) :
                  \E i \in DOMAIN files :
                      files[i].Path = c /\ files[i].Header.Parent = p
            /\ \A c \in Range(nodes[p].Children) :
                  Count(nodes[p].Children, c) = 1

\* C4: no node occurs twice in the returned forest, over the root slice and
\* all Children slices -- stated for every input, two records sharing a
\* path included.
C4_NoNodeTwiceInForest ==
    Returned => \A p \in ForestNodes : ForestLinks(p) <= 1

\* C5: after BuildHierarchy no node created from the input is linked into
\* two places, and none is its own descendant through Children -- stated
\* for every input.
C5_SingleLinkNoSelfDescent ==
    Returned =>
        \A p \in DOMAIN nodes :
            /\ AllLinks(p) <= 1
            /\ p \notin Descendants(p)

\* C6: in the returned forest the root slice and the Children of every
\* node, at every depth, are sorted ascending by Title in byte-wise order.
C6_SiblingsSorted ==
    Returned =>
        /\ SortedByTitle(roots)
        /\ \A p \in ForestNodes : SortedByTitle(nodes[p].Children)

\* C6 witness: a node two levels below the roots has two children with
\* different titles that were linked in descending title order.
C6_Witness ==
    /\ Returned
    /\ \E r \in Range(roots) :
         \E p \in Range(nodes[r].Children) :
            LET ch == nodes[p].Children
            IN /\ Len(ch) = 2
               /\ nodes[ch[1]].Title # nodes[ch[2]].Title
               /\ Before(ch[2], ch[1])

\* C7: the returned forest does not depend on the order of the records in
\* the input: every reordering of the input gives the same forest, also
\* when sibling records have the same title.
C7_InputOrderIrrelevant ==
    Returned =>
        \A g \in Reorderings(files) :
            LET t == BuildHierarchy(g)
            IN /\ ~t.overflow
               /\ Serialize(t.nodes, t.roots) = Serialize(nodes, roots)

\* C9: on N records none of which has a parent, BuildHierarchy returns
\* exactly N roots, each with empty Children (no roots for N = 0).
C9_NoParentsAllRoots ==
    (pc # "call" /\ NoParents) =>
        /\ Returned
        /\ Len(roots) = Len(files)
        /\ \A k \in DOMAIN roots : nodes[roots[k]].Children = << >>
        /\ \A i \in DOMAIN files : files[i].Path \in Range(roots)

\* C9 witness: a returned call on at least two records without parents.
C9_Witness ==
    /\ Returned
    /\ NoParents
    /\ Len(files) >= 2
    /\ Len(roots) = Len(files)

TheDoc == disk.entry.doc
Extracted == pc = "extracted"

\* The block gives text where StandardsHeader has a string and a list where
\* it has a slice.
WellTyped(doc) ==
    /\ doc.fields.title.kind # "list"
    /\ doc.fields.description.kind # "list"
    /\ doc.fields.scope.kind # "list"
    /\ doc.fields.topics.kind # "scalar"
    /\ doc.fields.parent.kind # "list"

\* C12: ExtractMDHeader returns no header and no error for every readable
\* document with no metadata block, and for every readable document whose
\* block parses but lacks, or gives the empty default for, one of title,
\* description, scope and topics.
C12_SkippedWithoutError ==
    (/\ Extracted
     /\ TheDoc.readable
     /\ \/ TheDoc.block = "none"
        \/ /\ TheDoc.block = "mapping"
           /\ WellTyped(TheDoc)
           /\ \/ TheDoc.fields.title.kind \in {"absent", "null"}
              \/ TheDoc.fields.title.v = << >>
              \/ TheDoc.fields.description.kind \in {"absent", "null"}
              \/ TheDoc.fields.description.v = ""
              \/ TheDoc.fields.scope.kind \in {"absent", "null"}
              \/ TheDoc.fields.scope.v = ""
              \/ TheDoc.fields.topics.kind \in {"absent", "null"})
        => (ret.header = NilHeader /\ ret.err = Nil)

C12_Witness ==
    /\ Extracted
    /\ TheDoc.block = "mapping"
    /\ TheDoc.fields.title = Scalar(TitleB)
    /\ TheDoc.fields.description = Scalar("d1")
    /\ TheDoc.fields.scope = Scalar("*")
    /\ TheDoc.fields.topics = Null
    /\ TheDoc.fields.parent = Scalar("a.md")
    /\ ret = NoResult

\* C13: ExtractMDHeader returns no header and no error for every readable
\* document whose metadata block is present but does not parse: a malformed
\* block is skipped like an incomplete one and never yields an error.
C13_MalformedSkippedWithoutError ==
    (/\ Extracted
     /\ TheDoc.readable
     /\ \/ TheDoc.block = "malformed"
        \/ TheDoc.block = "mapping" /\ ~WellTyped(TheDoc))
        => (ret.header = NilHeader /\ ret.err = Nil)

\* The block declares a non-empty title, description and scope, a list of
\* topics, and either no parent or a parent string.
FullyValid(doc) ==
    /\ doc.readable
    /\ doc.block = "mapping"
    /\ doc.fields.title.kind = "scalar" /\ doc.fields.title.v # << >>
    /\ doc.fields.description.kind = "scalar"
    /\ doc.fields.description.v # ""
    /\ doc.fields.scope.kind = "scalar" /\ doc.fields.scope.v # ""
    /\ doc.fields.topics.kind = "list"
    /\ doc.fields.parent.kind # "list"

\* C15: for every document with a fully valid header, ExtractMDHeader
\* returns, with no error, a header whose title, description, scope, topics
\* (same elements, same order) and parent (absent, or the declared string)
\* are the declared values.
C15_ValidHeaderRoundTrip ==
    (Extracted /\ FullyValid(TheDoc)) =>
        /\ ret.err = Nil
        /\ Len(ret.header) = 1
        /\ ret.header[1].Title = TheDoc.fields.title.v
        /\ ret.header[1].Description = TheDoc.fields.description.v
        /\ ret.header[1].Scope = TheDoc.fields.scope.v
        /\ ret.header[1].Topics = TheDoc.fields.topics.v
        /\ IF TheDoc.fields.parent.kind = "scalar"
           THEN ret.header[1].Parent = TheDoc.fields.parent.v
           ELSE ret.header[1].Parent = Nil

C15_Witness ==
    /\ Extracted
    /\ FullyValid(TheDoc)
    /\ TheDoc.fields.topics = List(<<"y", "x">>)
    /\ TheDoc.fields.parent = Scalar("a.md")
    /\ ret.err = Nil
    /\ Len(ret.header) = 1
    /\ ret.header[1].Topics = <<"y", "x">>
    /\ ret.header[1].Parent = "a.md"

-----------------------------------------------------------------------------
(* Reading a run: the file system as the claims see it, by the names and   *)
(* places of its entries, not by the walk.                                 *)

\* Everything below directory d: the names leading to it, and the entry.
RECURSIVE Under(_)
Under(d) ==
    UNION { {[names |-> <<d.listing[k].name>>, entry |-> d.listing[k]]} \cup
            { [names |-> <<d.listing[k].name>> \o x.names,
               entry |-> x.entry] : x \in Under(d.listing[k]) } :
            k \in DOMAIN d.listing }

Parsed == pc \notin {"parse", "extract", "extracted"}
Collected == pc \in {"call", "returned", "marshalled", "done"}

\* The names of the model that end in ".md".
MarkdownNames == {"a.md", "z.md"}

MarkdownFiles ==
    { x \in Under(disk.entry) :
        ~x.entry.isDir /\ x.names[Len(x.names)] \in MarkdownNames }

Directories ==
    {disk.entry} \cup
    { x.entry : x \in { y \in Under(disk.entry) : y.entry.isDir } }

\* Every entry can be walked and every Markdown file can be read.
AllWalkable ==
    /\ disk.lstat
    /\ \A d \in Directories : d.canList
    /\ \A x \in MarkdownFiles : x.entry.doc.readable

\* The path under which the walk reports the entry at names.
RECURSIVE Slashed(_)
Slashed(names) ==
    IF names = << >> THEN "" ELSE "/" \o Head(names) \o Slashed(Tail(names))

PathOf(names) == (IF root = "./tree" THEN "tree" ELSE root) \o Slashed(names)

\* C14: in a directory tree in which every entry can be walked and every
\* Markdown file can be read, collection does not fail whatever the
\* metadata of the documents is, and a run that ends has written its
\* output; documents without a valid header are only skipped.
C14_MetadataNeverFailsRun ==
    (Parsed /\ AllWalkable) =>
        /\ pc = "error" => ret.err \in {"yaml: marshal", "write"}
        /\ pc = "done" => outfile.exists

\* C16: if the root cannot be walked, or a Markdown file under it cannot
\* be read, ParseMDDocuments returns an error, GenerateStandardsTree
\* returns it, and the forest is neither built nor written.
C16_IOFailureAborts ==
    (/\ Parsed
     /\ \/ ~disk.lstat
        \/ ~disk.entry.canList
        \/ \E x \in MarkdownFiles : ~x.entry.doc.readable)
        => /\ pc = "error"
           /\ ret.err \notin {Nil, "yaml: marshal", "write"}
           /\ nodes = << >>
           /\ roots = << >>
           /\ outfile = disk.output

C16_Witness ==
    /\ pc = "error"
    /\ disk.lstat
    /\ \E x \in MarkdownFiles : Len(x.names) = 2 /\ ~x.entry.doc.readable
    /\ Len(files) = 1
    /\ ret.err = "read"
    /\ outfile = OldFile

\* C17: the output file is written only after collection and serialization
\* have both succeeded: while the run is under way, and after a run that
\* ended with an error of collection or serialization, the output file is
\* what it was before the run.
C17_WrittenOnlyAfterSuccess ==
    (/\ pc \in {"parse", "call", "returned", "marshalled", "done", "error"}
     /\ outfile # disk.output)
        => \/ pc = "done"
           \/ pc = "error" /\ ret.err = "write"

C17_Witness ==
    /\ pc = "error"
    /\ ret.err = "yaml: marshal"
    /\ roots # << >>
    /\ outfile = OldFile

\* C18: ParseMDDocuments yields no record for a directory or for a file
\* whose name does not end in ".md": every record's path is the path of a
\* file under the root whose name ends in ".md".
C18_OnlyMarkdownFiles ==
    (Parsed /\ disk.lstat) =>
        \A i \in DOMAIN files :
            \E x \in MarkdownFiles : files[i].Path = PathOf(x.names)

C18_Witness ==
    /\ pc = "call"
    /\ Len(files) = 2
    /\ \E x \in Under(disk.entry) :
          /\ x.names = <<"a.md.bak">>
          /\ x.entry.doc = Valid(Absent)
    /\ \E x \in Under(disk.entry) :
          /\ x.names = <<"z.md", "a.md">>
          /\ x.entry.doc = Valid(Absent)

\* Where a declared parent leads from the root directory: the names from
\* the root down to the place, or Outside when it climbs above the root.
Outside == <<"..">>

RECURSIVE Navigate(_, _, _)
Navigate(elems, k, names) ==
    IF k > Len(elems) \/ names = Outside THEN names
    ELSE IF elems[k] = << >> \/ elems[k] = <<".">>
    THEN Navigate(elems, k + 1, names)
    ELSE IF elems[k] = <<".", ".">>
    THEN IF names = << >>
         THEN Outside
         ELSE Navigate(elems, k + 1, SubSeq(names, 1, Len(names) - 1))
    ELSE Navigate(elems, k + 1, Append(names, Text(elems[k])))

PlaceOf(parent) == Navigate(Split(Chars[parent]), 1, << >>)

\* The file a record was read from, and the parent its document declares.
FileOf(i) == CHOOSE x \in MarkdownFiles : PathOf(x.names) = files[i].Path
DeclaredParent(i) == FileOf(i).entry.doc.fields.parent

\* C19: after a successful ParseMDDocuments(root), a record whose document
\* declares a parent P has the join of root and P as its parent: when P is
\* already in clean form that is root, a slash and P, and whenever P leads
\* to the file of a collected record the parent equals that record's path;
\* a record whose document declares no parent keeps a nil parent.
C19_ParentJoinedToRoot ==
    Collected =>
        \A i \in DOMAIN files :
            IF DeclaredParent(i).kind = "scalar"
            THEN /\ files[i].Header.Parent # Nil
                 /\ DeclaredParent(i).v \in {"a.md", "sub/a.md", "missing.md"}
                       => files[i].Header.Parent =
                             PathOf(<<DeclaredParent(i).v>>)
                 /\ \A j \in DOMAIN files :
                       PlaceOf(DeclaredParent(i).v) = FileOf(j).names
                          => files[i].Header.Parent = files[j].Path
            ELSE files[i].Header.Parent = Nil

C19_Witness ==
    /\ pc = "call"
    /\ root = "./tree"
    /\ Len(files) = 2
    /\ DeclaredParent(1).v = "sub/../a.md"
    /\ DeclaredParent(2).v = "a.md"
    /\ files[1].Path = "tree/a.md"
    /\ files[2].Path = "tree/sub/a.md"
    /\ files[1].Header.Parent = "tree/a.md"
    /\ files[2].Header.Parent = "tree/a.md"

\* The spelling of a path the collector produced.
Spelling(str) ==
    CHOOSE cs \in { Join(Chars[r], Chars[p]) :
                      r \in Roots, p \in DeclaredParents } : Text(cs) = str

HasPrefix(cs, prefix) ==
    Len(prefix) <= Len(cs) /\ SubSeq(cs, 1, Len(prefix)) = prefix

\* C20: after ParseMDDocuments(root), every record's parent that is neither
\* nil nor empty has the root path as a prefix, whatever the declared
\* parent string (".." segments included) and whatever the root.
C20_ParentUnderRoot ==
    Parsed =>
        \A i \in DOMAIN files :
            files[i].Header.Parent \notin {Nil, ""}
                => HasPrefix(Spelling(files[i].Header.Parent), Chars[root])

\* C21: ParseMDDocuments is exhaustive: on success every ".md" file under
\* the root, at any depth, that has a valid header yields exactly one
\* record; no subtree is skipped.
C21_Exhaustive ==
    Collected =>
        \A x \in MarkdownFiles :
            FullyValid(x.entry.doc) =>
                Cardinality({ i \in DOMAIN files :
                                files[i].Path = PathOf(x.names) }) = 1

C21_Witness ==
    /\ Collected
    /\ Len(files) = 2
    /\ \E x \in MarkdownFiles :
          /\ x.names = <<"z.md", "a.md">>
          /\ FullyValid(x.entry.doc)
          /\ files[2].Path = PathOf(x.names)
    /\ \E x \in MarkdownFiles :
          /\ x.names = <<"a.md">>
          /\ FullyValid(x.entry.doc)
          /\ files[1].Path = PathOf(x.names)

\* C22: Sync overwrites the clone directory: when the cloner is about to be
\* invoked nothing is left at ClonePath, and the tree that is indexed after
\* a successful Sync holds nothing of what was at ClonePath before.
C22_CloneOverwritten ==
    /\ pc = "clone" => ~clone.present
    /\ pc = "done" =>
          \A k \in DOMAIN disk.entry.listing :
              disk.entry.listing[k] \notin Range(OldListing)

\* C23: a sync invocation with both --branch and --tag non-empty returns an
\* error; the clone directory is not removed, the cloner is not invoked
\* and the output file is not written.
C23_BranchAndTagRejected ==
    (args.branch # "" /\ args.tag # "" /\ pc # "main") =>
        /\ pc = "error"
        /\ ret.err # Nil
        /\ trace = << >>
        /\ outfile = disk.output

C23_Witness ==
    /\ args.branch = "main"
    /\ args.tag = "v1"
    /\ pc = "error"
    /\ clone.present
    /\ clone.listing = OldListing
    /\ outfile = OldFile

\* C27: Sync takes its steps in the order remove, clone, generate and stops
\* at the first one that fails, returning its error: after a failed
\* removal the cloner is never invoked, after a failed clone
\* GenerateStandardsTree is never invoked and the output file is not
\* written, and Sync returns nil only after all steps succeeded.
C27_StepsInOrder ==
    /\ trace \in {<< >>, <<"remove">>, <<"clone">>, <<"remove", "clone">>,
                  <<"clone", "generate">>,
                  <<"remove", "clone", "generate">>}
    /\ ret.err = "remove" => (pc = "error" /\ trace = <<"remove">>)
    /\ ret.err = "clone" =>
          /\ pc = "error"
          /\ trace \in {<<"clone">>, <<"remove", "clone">>}
          /\ outfile = disk.output
    /\ pc = "done" =>
          /\ ret.err = Nil
          /\ trace \in {<<"clone", "generate">>,
                        <<"remove", "clone", "generate">>}
    /\ (pc = "error" /\ ret.err \notin {"remove", "clone"} /\ trace # << >>)
          => "generate" \in Range(trace)

C27_Witness ==
    /\ pc = "error"
    /\ ret.err = "clone"
    /\ trace = <<"remove", "clone">>
    /\ outfile = OldFile

\* The diagnostic that names the record's path and its parent path.
Diagnostic(file) == [path |-> file.Path, parent |-> file.Header.Parent]

\* C24: BuildHierarchy emits a dangling-parent diagnostic naming the
\* record's path and its unresolved parent for a record if and only if the
\* record's parent is present and is no record's path; one diagnostic per
\* such record; and BuildHierarchy still returns a forest.
C24_DanglingDiagnosed ==
    pc # "call" =>
        /\ (\E i \in DOMAIN files : Dangling(files[i])) => Returned
        /\ Len(log) = Cardinality({ i \in DOMAIN files : Dangling(files[i]) })
        /\ \A i \in DOMAIN files :
              Dangling(files[i]) <=> Diagnostic(files[i]) \in Range(log)

\* C25: every prune is observable: each input record that does not appear
\* in the returned forest has had a diagnostic emitted that names its path.
C25_EveryPruneDiagnosed ==
    Returned =>
        \A i \in DOMAIN files :
            ~InForest(files[i]) =>
                \E k \in DOMAIN log : log[k].path = files[i].Path

\* The last record of the input that has the path p.
LastWith(p) ==
    files[CHOOSE j \in DOMAIN files :
            /\ files[j].Path = p
            /\ \A k \in DOMAIN files : files[k].Path = p => k <= j]

\* C26: when input records share a path the last of them in input order
\* wins: the one node of that path, wherever it is linked, carries the
\* title, description, scope and topics of the last record.
C26_LastRecordWins ==
    pc # "call" =>
        \A i \in DOMAIN files :
            LET p == files[i].Path
            IN /\ p \in DOMAIN nodes
               /\ nodes[p].Title = LastWith(p).Header.Title
               /\ nodes[p].Description = LastWith(p).Header.Description
               /\ nodes[p].Scope = LastWith(p).Header.Scope
               /\ nodes[p].Topics = LastWith(p).Header.Topics
               /\ Returned =>
                     \A q \in ForestNodes :
                         nodes[q].Path = p =>
                            nodes[q].Title = LastWith(p).Header.Title

C26_Witness ==
    /\ Returned
    /\ Len(files) = 2
    /\ files[1].Path = files[2].Path
    /\ files[1].Header.Title = TitleAB
    /\ files[2].Header.Title = TitleB
    /\ files[1].Header.Parent = Nil
    /\ files[2].Header.Parent = Nil
    /\ Len(roots) = 2
    /\ nodes[roots[1]].Title = TitleB
    /\ nodes[roots[2]].Title = TitleB

\* C28: BuildHierarchy terminates and returns a finite forest for every
\* finite input, inputs with cyclic parent references, with a record that
\* names itself as parent, and with records that share a path included.
C28_AlwaysReturns == pc # "call" => Returned

\* Following the parent references from the record file goes on for n
\* steps without reaching a record without a parent or a missing path.
RECURSIVE ChainGoesOn(_, _)
ChainGoesOn(file, n) ==
    \/ n = 0
    \/ /\ file.Header.Parent # Nil
       /\ \E j \in DOMAIN files :
             /\ files[j].Path = file.Header.Parent
             /\ ChainGoesOn(files[j], n - 1)

\* With distinct paths a chain that goes on for as many steps as there are
\* records has come back to a record it passed: it runs into a cycle.
Cyclic(file) == ChainGoesOn(file, Len(files))

\* C29: with pairwise distinct input paths, a record whose parent is its
\* own path, or whose chain of parent references forms a cycle, is neither
\* a root nor reachable from a root, and the returned forest is acyclic.
C29_CyclesLeftOut ==
    (pc # "call" /\ DistinctPaths) =>
        /\ Returned
        /\ \A i \in DOMAIN files :
              Cyclic(files[i]) => files[i].Path \notin ForestNodes
        /\ \A p \in ForestNodes : p \notin Descendants(p)

C29_Witness ==
    /\ Returned
    /\ DistinctPaths
    /\ Len(files) = 3
    /\ \E i, j, k \in DOMAIN files :
          /\ files[i].Header.Parent = files[j].Path
          /\ files[j].Header.Parent = files[i].Path
          /\ i # j
          /\ files[k].Header.Parent = Nil
          /\ ForestNodes = {files[k].Path}
          /\ nodes[files[i].Path].Children = <<files[j].Path>>

\* The record's chain of parent references reaches, within n steps, a
\* parent path that no record has.
RECURSIVE ChainDangles(_, _)
ChainDangles(file, n) ==
    \/ Dangling(file)
    \/ /\ n > 0
       /\ file.Header.Parent # Nil
       /\ \E j \in DOMAIN files :
             /\ files[j].Path = file.Header.Parent
             /\ ChainDangles(files[j], n - 1)

TypeOK ==
    /\ pc \in {"call", "returned", "crashed", "extract", "extracted",
             "parse", "marshalled", "done", "error", "main", "sync",
             "remove", "clone", "generate"}
    /\ \A x \in DOMAIN Chars : Text(Chars[x]) = x
    /\ DOMAIN nodes \subseteq { files[i].Path : i \in DOMAIN files }

=============================================================================
